---- MODULE Spec2Model ----
(***************************************************************************)
(* Pack-level part of examples/run_pack_discharge_ecm.py: the distribution *)
(* of the pack current over the cells of every module, the flattening of   *)
(* the current grid into per-cell traces and the per-cell evaluation loop. *)
(*                                                                         *)
(* numpy arrays are functions over 0-based index ranges, as in the source. *)
(* Real numbers are exact rationals <<numerator, denominator>> in lowest   *)
(* terms with a positive denominator; the rounding of binary floating      *)
(* point is not modelled, so "equal" below is exact equality of reals.     *)
(* A resistance of exactly zero (numpy: inf/nan with a warning) is outside *)
(* the rational domain and is not among the modelled inputs.               *)
(***************************************************************************)
EXTENDS Integers, Sequences, FiniteSets, TLC

(***************************************************************************)
(* Rational arithmetic                                                     *)
(***************************************************************************)
RECURSIVE GCD(_, _)
GCD(a, b) == IF b = 0 THEN a ELSE GCD(b, a % b)

Abs(n) == IF n < 0 THEN -n ELSE n

\* n/d in lowest terms, d > 0 required
Norm(n, d) ==
    LET g == GCD(Abs(n), d)
    IN  IF n = 0 THEN <<0, 1>> ELSE <<n \div g, d \div g>>

Rat(n, d) == Norm(n, d)

Zero == <<0, 1>>

RAdd(x, y) ==
    LET g == GCD(x[2], y[2])
    IN  Norm(x[1] * (y[2] \div g) + y[1] * (x[2] \div g), x[2] * (y[2] \div g))

RNeg(x) == <<-x[1], x[2]>>

RSub(x, y) == RAdd(x, RNeg(y))

RMul(x, y) ==
    LET a == Norm(x[1], y[2])
        b == Norm(y[1], x[2])
    IN  Norm(a[1] * b[1], a[2] * b[2])

\* y # 0 required
RInv(y) == IF y[1] > 0 THEN <<y[2], y[1]>> ELSE <<-y[2], -y[1]>>

RDiv(x, y) == RMul(x, RInv(y))

RLt(x, y) == x[1] * y[2] < y[1] * x[2]

RLe(x, y) == x[1] * y[2] <= y[1] * x[2]

\* sum of f[0] + ... + f[n-1]
RECURSIVE RSum(_, _)
RSum(f, n) == IF n = 0 THEN Zero ELSE RAdd(RSum(f, n - 1), f[n - 1])


(***************************************************************************)
(* Array helpers (numpy)                                                   *)
(***************************************************************************)
\* a 0-based array from a tuple of values
Arr(seq) == [j \in 0..(Len(seq) - 1) |-> seq[j + 1]]

\* len(a)
Len0(a) == Cardinality(DOMAIN a)

\* a[::-1]
Rev(a) == [j \in DOMAIN a |-> a[Len0(a) - 1 - j]]

\* np.zeros((rows, cols))
Zeros2(rows, cols) == [r \in 0..(rows - 1) |-> [c \in 0..(cols - 1) |-> Zero]]

\* np.zeros((n, rows, cols))
Zeros3(n, rows, cols) == [t \in 0..(n - 1) |-> Zeros2(rows, cols)]

\* a.T of a 2-d array of shape (rows, cols)
Transpose(a, rows, cols) ==
    [c \in 0..(cols - 1) |-> [r \in 0..(rows - 1) |-> a[r][c]]]

\* np.sum(a, axis=1) of a 2-d array of shape (rows, cols)
SumAxis1(a, rows, cols) == [r \in 0..(rows - 1) |-> RSum(a[r], cols)]

\* np.interp(x, xp, fp): piecewise linear, clamped to fp[0] and fp[-1]
\* outside [xp[0], xp[-1]]; xp increasing
Interp(x, xp, fp) ==
    LET n == Len0(xp)
    IN  IF RLe(x, xp[0]) THEN fp[0]
        ELSE IF RLe(xp[n - 1], x) THEN fp[n - 1]
        ELSE LET j == CHOOSE i \in 0..(n - 2) : RLe(xp[i], x) /\ RLt(x, xp[i + 1])
                 slope == RDiv(RSub(fp[j + 1], fp[j]), RSub(xp[j + 1], xp[j]))
             IN  RAdd(fp[j], RMul(slope, RSub(x, xp[j])))

(***************************************************************************)
(* Input data                                                              *)
(***************************************************************************)
\* longest discharge trace considered
MaxSteps == 3

\* (n_series, n_parallel): the script's 2 x 3 pack, a single module of two
\* cells and the single-cell pack
Topologies == {<<1, 1>>, <<1, 2>>, <<2, 3>>}

\* packs used where the per-cell bodies run in any order or interleaved
SmallTopologies == {<<1, 2>>, <<2, 1>>}

\* initial SOC of a cell, from np.random.uniform(0.95, 1.00)
ZiValues == {Rat(95, 100), Rat(98, 100)}

\* SOC and OCV points of the HPPC rest periods, SOC decreasing
z_pts == Arr(<<Rat(1, 1), Rat(9, 10), Rat(8, 10)>>)

v_pts == Arr(<<Rat(39, 10), Rat(35, 10), Rat(33, 10)>>)

\* column 2 (series resistance r0) of the rctau table: a table of mean 0.01,
\* one of mean 0.02 and one whose mean is negative
R0Columns == {<<Rat(1, 100), Rat(1, 100)>>,
              <<Rat(1, 100), Rat(3, 100)>>,
              <<Rat(1, 100), Rat(-5, 100)>>}

\* a row of rctau: branch resistance, branch decay exp(-dt/tau) over one
\* sampling interval, series resistance r0 (column 2)
RctauRow(r0) == Arr(<<Rat(1, 100), Rat(1, 2), r0>>)

\* sample values of the measured discharge current [A]
CurrentValues == {Zero, Rat(10, 1)}

\* data_dis.time of a trace of n samples [s]
DisTime(n) == [t \in 0..(n - 1) |-> Rat(360 * t, 1)]

VARIABLES
    n_parallel,   \* cells in parallel per module
    n_series,     \* modules in series
    zi,           \* initial SOC grid
    rctau,        \* RC parameter table
    ecm_current,  \* ecm.current
    time,         \* data_dis.time
    ocv_cells,    \* OCV grid
    r0_cells,     \* R0 grid
    i_pack,       \* commanded pack current
    i_cells,      \* current grid, (timestep, module, cell)
    v_modules,    \* module voltages of the last solved timestep
    k,            \* loop variable of both loops
    i_cells2,     \* per-cell current traces
    n_cells,      \* number of cells in the pack
    v_cells,      \* per-cell terminal voltage traces
    temp_cells,   \* per-cell temperature traces
    pc,           \* position in the script
    cpc,          \* position of the per-cell body of each cell
    loc,          \* soc, ocv and vt computed in the body of each cell
    overlap       \* history: a body started while another was under way

vars == <<n_parallel, n_series, zi, rctau, ecm_current, time, ocv_cells,
          r0_cells, i_pack, i_cells, v_modules, k, i_cells2, n_cells,
          v_cells, temp_cells, pc, cpc, loc, overlap>>



(***************************************************************************)
(* Pack current distribution (lines 71-83 of the script)                   *)
(***************************************************************************)
\* ocv_cells = np.interp(zi, z_pts[::-1], v_pts[::-1])
OcvCells(z, ns, np) ==
    [m \in 0..(ns - 1) |-> [p \in 0..(np - 1) |->
        Interp(z[m][p], Rev(z_pts), Rev(v_pts))]]

\* rctau[:, 2].mean()
R0Mean(rc) ==
    RDiv(RSum([r \in DOMAIN rc |-> rc[r][2]], Len0(rc)), Rat(Len0(rc), 1))

\* r0_cells = rctau[:, 2].mean() * np.ones((n_series, n_parallel))
R0Cells(rc, ns, np) ==
    [m \in 0..(ns - 1) |-> [p \in 0..(np - 1) |-> RMul(R0Mean(rc), Rat(1, 1))]]

\* i_pack = ecm.current * 3
IPack(cur) == [t \in DOMAIN cur |-> RMul(cur[t], Rat(3, 1))]

\* v_modules = (np.sum(ocv_cells / r0_cells, axis=1) - i_pack[k])
\*             / np.sum(1 / r0_cells, axis=1)
VModules(oc, r0, ip, ns, np) ==
    LET q == [m \in 0..(ns - 1) |-> [p \in 0..(np - 1) |-> RDiv(oc[m][p], r0[m][p])]]
        g == [m \in 0..(ns - 1) |-> [p \in 0..(np - 1) |-> RInv(r0[m][p])]]
        sq == SumAxis1(q, ns, np)
        sg == SumAxis1(g, ns, np)
    IN  [m \in 0..(ns - 1) |-> RDiv(RSub(sq[m], ip), sg[m])]

\* ICells without the two transposes: v_modules is subtracted along the cell
\* axis instead of the module axis
ICells_WrongAxis(oc, r0, vm, ns, np) ==
    [m \in 0..(ns - 1) |-> [p \in 0..(np - 1) |->
        RDiv(RSub(oc[m][p], vm[p % ns]), r0[m][p])]]

\* ((ocv_cells.T - v_modules).T) / r0_cells
ICells(oc, r0, vm, ns, np) ==
    LET ot == Transpose(oc, ns, np)
        dt == [p \in 0..(np - 1) |-> [m \in 0..(ns - 1) |-> RSub(ot[p][m], vm[m])]]
        d  == Transpose(dt, np, ns)
    IN  [m \in 0..(ns - 1) |-> [p \in 0..(np - 1) |-> RDiv(d[m][p], r0[m][p])]]

\* a.transpose(1, 2, 0) of a 3-d array of shape (n, ns, np)
Transpose120(a, n, ns, np) ==
    [m \in 0..(ns - 1) |-> [p \in 0..(np - 1) |-> [t \in 0..(n - 1) |-> a[t][m][p]]]]

\* a.reshape(rows, cols) of a 3-d array of shape (d0, d1, d2): the elements
\* in row-major order, cut into rows of cols elements
Reshape(a, d0, d1, d2, rows, cols) ==
    LET flat == [x \in 0..(d0 * d1 * d2 - 1) |->
                    a[x \div (d1 * d2)][(x \div d2) % d1][x % d2]]
    IN  [r \in 0..(rows - 1) |-> [c \in 0..(cols - 1) |-> flat[r * cols + c]]]

\* ICells2 without the transpose: the time-major grid cut into rows
ICells2_NoTranspose(ic, n, ns, np) ==
    Reshape(ic, n, ns, np, ns * np, n)

\* i_cells2 = i_cells.transpose(1, 2, 0).reshape(i_cells[0].size, len(i_pack))
ICells2(ic, n, ns, np) ==
    Reshape(Transpose120(ic, n, ns, np), ns, np, n, ns * np, n)

(***************************************************************************)
(* Cell model and thermal model (package ecm), after sections 4.2 and 4.4  *)
(* of the specification                                                    *)
(***************************************************************************)
\* nominal cell capacity [Ah]
QCell == 30

\* thermal mass times specific heat [J/K]
ThermalMassCp == 720

\* heat-loss coefficient [W/K]
HLoss == 1

\* ambient temperature [K]
TAmbient == 297

\* ti=297 in the call of calc_q_temp
TInit == 297

\* ecm.soc(): coulomb counting from SOC 1 with the rectangular rule
EcmSoc(cur, tm) ==
    LET n == Len0(cur)
        s[t \in 0..(n - 1)] ==
            IF t = 0 THEN Rat(1, 1)
            ELSE RSub(s[t - 1],
                      RDiv(RMul(cur[t], RSub(tm[t], tm[t - 1])), Rat(QCell * 3600, 1)))
    IN  s

\* ecm.ocv(soc, vz_pts=(v_pts, z_pts)): linear interpolation on the stored
\* curve, clamped at its ends
EcmOcv(sc) == [t \in DOMAIN sc |-> Interp(sc[t], Rev(z_pts), Rev(v_pts))]

\* overpotential of branch b of rctau under the current trace cur
Overpotential(cur, rc, b) ==
    LET n == Len0(cur)
        a == rc[b][1]
        v[t \in 0..(n - 1)] ==
            IF t = 0 THEN Zero
            ELSE RAdd(RMul(v[t - 1], a),
                      RMul(RMul(cur[t], rc[b][0]), RSub(Rat(1, 1), a)))
    IN  v

\* ecm.vt(soc, ocv, rctau): OCV - I*R0 - sum of the branch overpotentials
EcmVt(cur, oc, rc) ==
    LET over == [b \in DOMAIN rc |-> Overpotential(cur, rc, b)]
    IN  [t \in DOMAIN cur |->
            RSub(RSub(oc[t], RMul(cur[t], R0Mean(rc))),
                 RSum([b \in DOMAIN rc |-> over[b][t]], Len0(rc)))]

\* tm.calc_q_temp(i, ocv, time, ti, vt): the temperature trace
CalcTemp(i, oc, tm, ti, v) ==
    LET n == Len0(i)
        q == [t \in 0..(n - 1) |-> RMul(i[t], RSub(oc[t], v[t]))]
        T[t \in 0..(n - 1)] ==
            IF t = 0 THEN Rat(ti, 1)
            ELSE RAdd(T[t - 1],
                      RDiv(RMul(RSub(tm[t], tm[t - 1]),
                                RSub(q[t], RMul(Rat(HLoss, 1),
                                                RSub(T[t - 1], Rat(TAmbient, 1))))),
                           Rat(ThermalMassCp, 1)))
    IN  T

(***************************************************************************)
(* The script                                                              *)
(***************************************************************************)
\* the state before the pack calculations (after line 66), for a pack
\* topology of the set topos
InitWith(topos) ==
    /\ \E tp \in topos : n_series = tp[1] /\ n_parallel = tp[2]
    /\ zi \in [0..(n_series - 1) -> [0..(n_parallel - 1) -> ZiValues]]
    /\ \E r \in R0Columns : rctau = [b \in 0..(Len(r) - 1) |-> RctauRow(r[b + 1])]
    /\ \E n \in 2..MaxSteps : /\ ecm_current \in [0..(n - 1) -> CurrentValues]
                              /\ time = DisTime(n)
    /\ ocv_cells = <<>>
    /\ r0_cells = <<>>
    /\ i_pack = <<>>
    /\ i_cells = <<>>
    /\ v_modules = <<>>
    /\ k = 0
    /\ i_cells2 = <<>>
    /\ n_cells = 0
    /\ v_cells = <<>>
    /\ temp_cells = <<>>
    /\ pc = "setup"
    /\ cpc = [c \in 0..(n_series * n_parallel - 1) |-> "todo"]
    /\ loc = [c \in 0..(n_series * n_parallel - 1) |-> <<>>]
    /\ overlap = FALSE

Init == InitWith(Topologies)

\* PackSetup with the timestep loop starting at index 0
PackSetup_FromZero ==
    /\ pc = "setup"
    /\ ocv_cells' = OcvCells(zi, n_series, n_parallel)
    /\ r0_cells' = R0Cells(rctau, n_series, n_parallel)
    /\ i_pack' = IPack(ecm_current)
    /\ i_cells' = Zeros3(Len0(i_pack'), n_series, n_parallel)
    /\ k' = 0
    /\ pc' = "timestep"
    /\ UNCHANGED <<n_parallel, n_series, zi, rctau, ecm_current, time, v_modules,
                   i_cells2, n_cells, v_cells, temp_cells, cpc, loc, overlap>>

\* lines 71-77: the grids, the commanded current and the zeroed current grid
PackSetup ==
    /\ pc = "setup"
    /\ ocv_cells' = OcvCells(zi, n_series, n_parallel)
    /\ r0_cells' = R0Cells(rctau, n_series, n_parallel)
    /\ i_pack' = IPack(ecm_current)
    /\ i_cells' = Zeros3(Len0(i_pack'), n_series, n_parallel)
    /\ k' = 1
    /\ pc' = "timestep"
    /\ UNCHANGED <<n_parallel, n_series, zi, rctau, ecm_current, time, v_modules,
                   i_cells2, n_cells, v_cells, temp_cells, cpc, loc, overlap>>

\* TimestepStep solving step k with the pack current of step k - 1
TimestepStep_PrevCurrent ==
    /\ pc = "timestep"
    /\ k < Len0(i_pack)
    /\ v_modules' = VModules(ocv_cells, r0_cells, i_pack[k - 1], n_series, n_parallel)
    /\ i_cells' = [i_cells EXCEPT
                      ![k] = ICells(ocv_cells, r0_cells, v_modules', n_series, n_parallel)]
    /\ k' = k + 1
    /\ UNCHANGED <<n_parallel, n_series, zi, rctau, ecm_current, time, ocv_cells,
                   r0_cells, i_pack, i_cells2, n_cells, v_cells, temp_cells,
                   pc, cpc, loc, overlap>>

\* lines 79-81: one iteration of the timestep loop
TimestepStep ==
    /\ pc = "timestep"
    /\ k < Len0(i_pack)
    /\ v_modules' = VModules(ocv_cells, r0_cells, i_pack[k], n_series, n_parallel)
    /\ i_cells' = [i_cells EXCEPT
                      ![k] = ICells(ocv_cells, r0_cells, v_modules', n_series, n_parallel)]
    /\ k' = k + 1
    /\ UNCHANGED <<n_parallel, n_series, zi, rctau, ecm_current, time, ocv_cells,
                   r0_cells, i_pack, i_cells2, n_cells, v_cells, temp_cells,
                   pc, cpc, loc, overlap>>

\* lines 83-89: the timestep loop is exhausted (k stands at len(i_pack)); the
\* per-cell traces and the zeroed result arrays; k = 0 enters the loop of
\* line 91
Flatten ==
    /\ pc = "timestep"
    /\ k >= Len0(i_pack)
    /\ i_cells2' = ICells2(i_cells, Len0(i_pack), n_series, n_parallel)
    /\ n_cells' = n_parallel * n_series
    /\ v_cells' = Zeros2(n_cells', Len0(i_pack))
    /\ temp_cells' = Zeros2(n_cells', Len0(i_pack))
    /\ k' = 0
    /\ pc' = "cells"
    /\ UNCHANGED <<n_parallel, n_series, zi, rctau, ecm_current, time, ocv_cells,
                   r0_cells, i_pack, i_cells, v_modules, cpc, loc, overlap>>

\* another body is between its assignment of ecm.current and its last line
OtherUnderWay(c) == \E d \in DOMAIN cpc : d # c /\ cpc[d] \in {"assigned", "evaluated"}

\* Assign without the assignment: the evaluator keeps the current it had
Assign_Stale(c) ==
    /\ cpc[c] = "todo"
    /\ cpc' = [cpc EXCEPT ![c] = "assigned"]
    /\ overlap' = (overlap \/ OtherUnderWay(c))
    /\ UNCHANGED <<n_parallel, n_series, zi, rctau, ecm_current, time, ocv_cells,
                   r0_cells, i_pack, i_cells, v_modules, i_cells2, n_cells,
                   v_cells, temp_cells, pc, loc>>

\* Assign with i_pack an alias of ecm.current: the assignment rebinds both
Assign_AliasPack(c) ==
    /\ cpc[c] = "todo"
    /\ ecm_current' = i_cells2[c]
    /\ i_pack' = i_cells2[c]
    /\ cpc' = [cpc EXCEPT ![c] = "assigned"]
    /\ overlap' = (overlap \/ OtherUnderWay(c))
    /\ UNCHANGED <<n_parallel, n_series, zi, rctau, time, ocv_cells, r0_cells,
                   i_cells, v_modules, i_cells2, n_cells, v_cells,
                   temp_cells, pc, loc>>

\* line 92 in the body of cell c: ecm.current = i_cells2[k]
Assign(c) ==
    /\ cpc[c] = "todo"
    /\ ecm_current' = i_cells2[c]
    /\ cpc' = [cpc EXCEPT ![c] = "assigned"]
    /\ overlap' = (overlap \/ OtherUnderWay(c))
    /\ UNCHANGED <<n_parallel, n_series, zi, rctau, time, ocv_cells, r0_cells,
                   i_pack, i_cells, v_modules, i_cells2, n_cells, v_cells,
                   temp_cells, pc, loc>>

\* lines 93-94 in the body of cell c: soc and ocv from the evaluator's current
SocOcv(c) ==
    /\ cpc[c] = "assigned"
    /\ LET s == EcmSoc(ecm_current, time)
       IN  loc' = [loc EXCEPT ![c] = [soc |-> s, ocv |-> EcmOcv(s)]]
    /\ cpc' = [cpc EXCEPT ![c] = "evaluated"]
    /\ UNCHANGED <<n_parallel, n_series, zi, rctau, ecm_current, time, ocv_cells,
                   r0_cells, i_pack, i_cells, v_modules, i_cells2, n_cells,
                   v_cells, temp_cells, pc, overlap>>

\* lines 95-100 in the body of cell c: vt from the evaluator's current, the
\* temperature from the cell's own trace, both stored at index c
VtStore(c) ==
    /\ cpc[c] = "evaluated"
    /\ LET v == EcmVt(ecm_current, loc[c].ocv, rctau)
       IN  /\ loc' = [loc EXCEPT ![c] = [soc |-> loc[c].soc, ocv |-> loc[c].ocv, vt |-> v]]
           /\ v_cells' = [v_cells EXCEPT ![c] = v]
           /\ temp_cells' = [temp_cells EXCEPT
                                ![c] = CalcTemp(i_cells2[c], loc[c].ocv, time, TInit, v)]
    /\ cpc' = [cpc EXCEPT ![c] = "done"]
    /\ UNCHANGED <<n_parallel, n_series, zi, rctau, ecm_current, time, ocv_cells,
                   r0_cells, i_pack, i_cells, v_modules, i_cells2, n_cells,
                   pc, overlap>>

\* lines 91-100: the per-cell loop, k = 0 .. n_cells - 1 in order
CellStep ==
    /\ pc = "cells"
    /\ k < n_cells
    /\ \/ Assign(k) /\ k' = k
       \/ SocOcv(k) /\ k' = k
       \/ VtStore(k) /\ k' = k + 1

\* the per-cell loop is exhausted
Finish ==
    /\ pc = "cells"
    /\ k >= n_cells
    /\ pc' = "done"
    /\ UNCHANGED <<n_parallel, n_series, zi, rctau, ecm_current, time, ocv_cells,
                   r0_cells, i_pack, i_cells, v_modules, k, i_cells2, n_cells,
                   v_cells, temp_cells, cpc, loc, overlap>>

Next == PackSetup \/ TimestepStep \/ Flatten \/ CellStep \/ Finish

Spec == Init /\ [][Next]_vars

(***************************************************************************)
(* The per-cell bodies run as processes sharing the evaluator object: any  *)
(* body may take its next step at any time                                 *)
(***************************************************************************)
InitCells == InitWith(SmallTopologies)

CellAny ==
    /\ pc = "cells"
    /\ \E c \in 0..(n_cells - 1) : Assign(c) \/ SocOcv(c) \/ VtStore(c)
    /\ k' = k

\* every body has run to its end
FinishAny ==
    /\ pc = "cells"
    /\ \A c \in DOMAIN cpc : cpc[c] = "done"
    /\ pc' = "done"
    /\ UNCHANGED <<n_parallel, n_series, zi, rctau, ecm_current, time, ocv_cells,
                   r0_cells, i_pack, i_cells, v_modules, k, i_cells2, n_cells,
                   v_cells, temp_cells, cpc, loc, overlap>>

NextCells == PackSetup \/ TimestepStep \/ Flatten \/ CellAny \/ FinishAny

SpecCells == InitCells /\ [][NextCells]_vars


(***************************************************************************)
(* Properties                                                              *)
(***************************************************************************)
Modules == 0..(n_series - 1)

Cells == 0..(n_parallel - 1)

Steps == DOMAIN i_pack

\* the timestep loop has finished
Solved == pc \in {"cells", "done"}

\* every entry of the R0 grid is positive
R0Positive == \A m \in Modules : \A p \in Cells : RLt(Zero, r0_cells[m][p])

\* the cells of module m have one OCV and one R0
ModuleOcvUniform(m) == \A p \in Cells : ocv_cells[m][p] = ocv_cells[m][0]

ModuleR0Uniform(m) == \A p \in Cells : r0_cells[m][p] = r0_cells[m][0]

\* the commanded pack current is zero at every timestep
IPackZero == pc # "setup" /\ \A t \in Steps : i_pack[t] = Zero

\* the flat index of cell p of module m
CellIndex(m, p) == m * n_parallel + p

\* C1: after the timestep loop, for every timestep t from 0 and every module
\* m of a pack whose R0 are all positive, the currents of the cells of m at t
\* sum to the commanded pack current i_pack[t].
C1_CurrentConservation ==
    (Solved /\ R0Positive) =>
        \A t \in Steps : \A m \in Modules :
            RSum(i_cells[t][m], n_parallel) = i_pack[t]

\* C1, timesteps 1 and later only: the part of the conservation law that the
\* timestep loop establishes.
C1_ConservationFromStepOne ==
    (Solved /\ R0Positive) =>
        \A t \in Steps \ {0} : \A m \in Modules :
            RSum(i_cells[t][m], n_parallel) = i_pack[t]

\* C2: in a pack of one module of one cell with positive R0, the current of
\* the cell equals i_pack[t] at every timestep t from 0.
C2_SingleCell ==
    (Solved /\ n_series = 1 /\ n_parallel = 1 /\ R0Positive) =>
        \A t \in Steps : i_cells[t][0][0] = i_pack[t]

C3_EvenSplitFromStepOne ==
    Solved =>
        \A m \in Modules :
            (ModuleOcvUniform(m) /\ ModuleR0Uniform(m)) =>
                \A t \in Steps \ {0} : \A p \in Cells :
                    i_cells[t][m][p] = RDiv(i_pack[t], Rat(n_parallel, 1))

\* C4: with a pack current of zero at every timestep and positive R0, the
\* terminal voltage trace stored for every evaluated cell equals the OCV
\* trace of that cell, whatever the initial SOC grid.
C4_ZeroCurrentIdle ==
    (IPackZero /\ R0Positive) =>
        \A c \in DOMAIN cpc : cpc[c] = "done" => v_cells[c] = loc[c].ocv

\* C4 as amended: with a pack current of zero at every timestep, the terminal
\* voltage trace stored for an evaluated cell equals its OCV trace if the cells
\* of its module all have the same OCV.
C4_ZeroCurrentIdleUniformModule ==
    IPackZero =>
        \A m \in Modules :
            ModuleOcvUniform(m) =>
                \A p \in Cells :
                    cpc[CellIndex(m, p)] = "done" =>
                        v_cells[CellIndex(m, p)] = loc[CellIndex(m, p)].ocv

\* two modules of different OCV, each with equal cells, idle and evaluated
C4_Witness ==
    /\ pc = "done"
    /\ IPackZero
    /\ n_series = 2
    /\ \A m \in Modules : ModuleOcvUniform(m)
    /\ ocv_cells[0][0] # ocv_cells[1][0]
    /\ v_cells[CellIndex(1, 2)] = loc[CellIndex(1, 2)].ocv

\* C5: a run whose R0 grid has an entry <= 0 stops at the current
\* distribution step: it writes no per-cell current and never reaches the
\* per-cell loop.
C5_InvalidResistanceRejected ==
    (pc # "setup" /\ ~R0Positive) =>
        /\ pc \notin {"cells", "done"}
        /\ \A t \in DOMAIN i_cells : i_cells[t] = Zeros2(n_series, n_parallel)

\* what the loop k = 0 .. n_cells - 1 stores for cell c
SeqVt(c) ==
    EcmVt(i_cells2[c], EcmOcv(EcmSoc(i_cells2[c], time)), rctau)

SeqTemp(c) ==
    CalcTemp(i_cells2[c], EcmOcv(EcmSoc(i_cells2[c], time)), time, TInit, SeqVt(c))

\* C6: however the per-cell bodies are ordered or interleaved on the shared
\* evaluator, the stored voltage and temperature traces of every cell are
\* those of the sequential loop.
C6_InterleavingIndependent ==
    pc = "done" =>
        \A c \in DOMAIN cpc : v_cells[c] = SeqVt(c) /\ temp_cells[c] = SeqTemp(c)

\* C6 as amended: in whatever order the per-cell bodies run, if no body
\* starts while another is under way, the stored voltage and temperature
\* traces of every cell are those of the sequential loop.
C6_OrderIndependent ==
    (pc = "done" /\ ~overlap) =>
        \A c \in DOMAIN cpc : v_cells[c] = SeqVt(c) /\ temp_cells[c] = SeqTemp(c)

\* the body of cell 1 ran before the body of cell 0, on different traces
C6_Witness ==
    /\ pc = "done"
    /\ ~overlap
    /\ i_cells2[0] # i_cells2[1]
    /\ ecm_current = i_cells2[0]
    /\ v_cells[0] # v_cells[1]

\* a step of either loop leaves the static inputs as they are
LoopStepKeepsInputs ==
    pc \in {"timestep", "cells"} =>
        /\ n_series' = n_series
        /\ n_parallel' = n_parallel
        /\ zi' = zi
        /\ ocv_cells' = ocv_cells
        /\ r0_cells' = r0_cells
        /\ i_pack' = i_pack

\* C7: through both loops the topology, the grids zi, ocv_cells and r0_cells
\* and the commanded trace i_pack keep their values, and there are always
\* n_series * n_parallel per-cell traces.
C7_StaticInputsFrozen ==
    /\ [][LoopStepKeepsInputs]_vars
    /\ [](Solved =>
            /\ n_cells = n_series * n_parallel
            /\ DOMAIN i_cells2 = 0..(n_cells - 1)
            /\ DOMAIN v_cells = 0..(n_cells - 1)
            /\ DOMAIN temp_cells = 0..(n_cells - 1))

\* a body has overwritten ecm.current with a trace that differs from i_pack
C7_Witness ==
    /\ pc = "done"
    /\ i_pack = IPack([t \in DOMAIN time |-> Rat(10, 1)])
    /\ ecm_current = i_cells2[n_cells - 1]
    /\ ecm_current # i_pack

\* an iteration of the timestep loop writes index k >= 1 only and moves on
LoopWritesIndexK ==
    (pc = "timestep" /\ pc' = "timestep") =>
        /\ k \in 1..(Len0(i_pack) - 1)
        /\ k' = k + 1
        /\ \A t \in DOMAIN i_cells \ {k} : i_cells'[t] = i_cells[t]

\* after its allocation the current grid is written by the timestep loop only
OnlyLoopWrites == pc \notin {"setup", "timestep"} => i_cells' = i_cells

\* C8: the current grid of timestep 0 stays zero, and the timestep loop
\* writes index k only, for k = 1, 2, ... len(i_pack) - 1 in this order.
C8_StepZeroLeftZero ==
    /\ [](pc # "setup" => i_cells[0] = Zeros2(n_series, n_parallel))
    /\ [](pc = "timestep" => k \in 1..Len0(i_pack))
    /\ [][LoopWritesIndexK]_vars
    /\ [][OnlyLoopWrites]_vars

\* a nonzero pack current at timestep 0 and a zero grid there, a solved grid
\* at timestep 1
C8_Witness ==
    /\ pc = "done"
    /\ i_pack[0] # Zero
    /\ i_cells[0] = Zeros2(n_series, n_parallel)
    /\ i_cells[1] # Zeros2(n_series, n_parallel)

\* mean OCV of module m
ModuleMeanOcv(m) == RDiv(RSum(ocv_cells[m], n_parallel), Rat(n_parallel, 1))

\* current of cell p of a module m of equal R0 under the pack current ip: the
\* even share plus the equalising current
CellShare(ip, m, p) ==
    RAdd(RDiv(ip, Rat(n_parallel, 1)),
         RDiv(RSub(ocv_cells[m][p], ModuleMeanOcv(m)), r0_cells[m][p]))

\* the last timestep solved so far
LastSolved == IF pc = "timestep" THEN k - 1 ELSE Len0(i_pack) - 1

\* C9: during the timestep loop and at the end of the run, every solved
\* timestep j >= 1 has the currents given by i_pack[j] and the static grids
\* alone, the module voltages of the last solved step likewise, and two solved
\* timesteps of equal pack current have equal current grids.
C9_Memoryless ==
    (pc \in {"timestep", "done"}) =>
        /\ \A j \in 1..LastSolved : \A m \in Modules : \A p \in Cells :
              i_cells[j][m][p] = CellShare(i_pack[j], m, p)
        /\ LastSolved >= 1 =>
              \A m \in Modules :
                  v_modules[m] =
                      RSub(ModuleMeanOcv(m),
                           RDiv(RMul(i_pack[LastSolved], r0_cells[m][0]),
                                Rat(n_parallel, 1)))
        /\ \A i \in 1..LastSolved : \A j \in 1..LastSolved :
              i_pack[i] = i_pack[j] => i_cells[i] = i_cells[j]

\* two solved timesteps of equal pack current after a different one
C9_Witness ==
    /\ pc = "done"
    /\ Len0(i_pack) >= 3
    /\ i_pack[0] # i_pack[1]
    /\ i_pack[1] = i_pack[2]
    /\ i_cells[1] = i_cells[2]
    /\ i_cells[1] # Zeros2(n_series, n_parallel)

\* C10: at the end of the run the trace of flat index m * n_parallel + p is
\* the trace of cell p of module m; in every iteration of the per-cell loop
\* the trace of index k is that of cell k % n_parallel of module
\* k \div n_parallel; every flat index is that of exactly one cell, every
\* trace has len(i_pack) entries, and the loop evaluates every flat index once.
C10_FlattenBijection ==
    Solved =>
        /\ pc = "done" =>
              \A m \in Modules : \A p \in Cells : \A t \in Steps :
                  i_cells2[CellIndex(m, p)][t] = i_cells[t][m][p]
        /\ (pc = "cells" /\ k < n_cells) =>
              \A t \in Steps :
                  i_cells2[k][t] = i_cells[t][k \div n_parallel][k % n_parallel]
        /\ \A c \in 0..(n_cells - 1) :
              /\ Cardinality({mp \in Modules \X Cells : CellIndex(mp[1], mp[2]) = c}) = 1
              /\ DOMAIN i_cells2[c] = Steps
        /\ DOMAIN i_cells2 = 0..(n_cells - 1)
        /\ \A c \in 0..(n_cells - 1) :
              /\ cpc[c] = "assigned" => ecm_current = i_cells2[c]
              /\ pc = "done" => cpc[c] = "done"
              /\ (pc = "cells" /\ c < k) => cpc[c] = "done"
              /\ (pc = "cells" /\ c > k) => cpc[c] = "todo"

\* the 2 x 3 pack evaluated, with traces that differ between cells and in time
C10_Witness ==
    /\ pc = "done"
    /\ n_series = 2
    /\ n_parallel = 3
    /\ Len0(i_pack) >= 3
    /\ i_cells2[CellIndex(1, 1)] # i_cells2[CellIndex(0, 1)]
    /\ i_cells2[CellIndex(1, 1)] # i_cells2[CellIndex(1, 2)]
    /\ i_cells2[CellIndex(1, 1)][1] # i_cells2[CellIndex(1, 1)][2]

====
